---- MODULE Spec2Model ----
(***************************************************************************)
(* Model of src/main.py: the JetBrains recent-projects launcher extension. *)
(*                                                                         *)
(* Strings are sequences of one-character strings, so that int(), the      *)
(* comparison of directory names and re.search work on characters.  A path *)
(* is a sequence of segments, each segment a string.                       *)
(***************************************************************************)
EXTENDS Integers, Sequences, FiniteSets, TLC

VARIABLES
    home,       \* config root: existing config directory name |-> its history file
    disk,       \* set of project paths that exist on the filesystem
    listeners,  \* the KeywordQueryEvent listeners subscribed to the extension
    reply       \* what the handler call of the last step returned or raised

vars == <<home, disk, listeners, reply>>

-----------------------------------------------------------------------------
(* Bounds of the model.                                                    *)

\* Entries per history file in the parser's input space.
MaxEntries == 2
\* PreferencesEvent notifications delivered in one run.
MaxListeners == 2

-----------------------------------------------------------------------------
(* Characters and strings.                                                 *)

Digits == {"0", "1", "2", "3", "4", "5", "6", "7", "8", "9"}

DigitVal ==
    [c \in Digits |->
        CASE c = "0" -> 0 [] c = "1" -> 1 [] c = "2" -> 2 [] c = "3" -> 3
          [] c = "4" -> 4 [] c = "5" -> 5 [] c = "6" -> 6 [] c = "7" -> 7
          [] c = "8" -> 8 [] c = "9" -> 9]

\* Code points of the characters that occur in directory names.
Ord(c) ==
    CASE c = "-" -> 45 [] c = "." -> 46
      [] c \in Digits -> 48 + DigitVal[c]
      [] c = "C" -> 67 [] c = "L" -> 76 [] c = "P" -> 80
      [] c = "a" -> 97 [] c = "h" -> 104 [] c = "i" -> 105 [] c = "m" -> 109
      [] c = "n" -> 110 [] c = "o" -> 111 [] c = "r" -> 114 [] c = "y" -> 121

\* What a handler or helper call produced: a value, or the exception that
\* left it, with the source line that raised it.
Return(v) == [exc |-> "none", line |-> 0, val |-> v]
Raise(e, line) == [exc |-> e, line |-> line, val |-> <<>>]
Ok(r) == r.exc = "none"

\* int(s) for a str of digits and letters, called at source line `line`:
\* the decimal value, ValueError for the empty string and for any non-digit.
RECURSIVE DecimalValue(_, _)
DecimalValue(s, acc) ==
    IF s = <<>> THEN acc
    ELSE DecimalValue(Tail(s), 10 * acc + DigitVal[Head(s)])

IntOf(s, line) ==
    IF s # <<>> /\ \A i \in 1..Len(s) : s[i] \in Digits
    THEN Return(DecimalValue(s, 0))
    ELSE Raise("ValueError", line)

\* An ordering that compares lengths before characters.
StrLessShortLex(a, b) ==
    \/ Len(a) < Len(b)
    \/ /\ Len(a) = Len(b)
       /\ \E i \in 1..Len(a) :
            /\ \A j \in 1..(i - 1) : a[j] = b[j]
            /\ Ord(a[i]) < Ord(b[i])

\* a < b for the names of two directories of one parent: by code point,
\* a proper prefix first.
RECURSIVE StrLess(_, _)
StrLess(a, b) ==
    IF a = <<>> THEN b # <<>>
    ELSE IF b = <<>> THEN FALSE
    ELSE IF Head(a) # Head(b) THEN Ord(Head(a)) < Ord(Head(b))
    ELSE StrLess(Tail(a), Tail(b))

StartsWith(s, prefix) ==
    /\ Len(prefix) <= Len(s)
    /\ SubSeq(s, 1, Len(prefix)) = prefix

-----------------------------------------------------------------------------
(* Paths.                                                                  *)

\* The segment that stands for the literal $USER_HOME$ in an entry's key.
UserHomeToken == <<"$">>
\* Path.home(), as segments.
HomePath == << <<"h">> >>

\* key.replace("$USER_HOME$", str(Path.home())), segment by segment.
RECURSIVE ReplaceUserHome(_)
ReplaceUserHome(key) ==
    IF key = <<>> THEN <<>>
    ELSE (IF Head(key) = UserHomeToken THEN HomePath ELSE <<Head(key)>>)
            \o ReplaceUserHome(Tail(key))

\* Path(p).name: the last segment.
PathName(p) == p[Len(p)]

-----------------------------------------------------------------------------
(* History files and Editor._parse_recent_projects.                        *)

\* An <entry key=...>: its key and its first projectOpenTimestamp option
\* (present or not, with a value attribute or not).
Entry(key, present, hasValue, value) ==
    [key |-> key, present |-> present, hasValue |-> hasValue, value |-> value]

MissingFile == [kind |-> "missing", entries |-> <<>>]
EmptyFile == [kind |-> "empty", entries |-> <<>>]
GarbageFile == [kind |-> "garbage", entries |-> <<>>]
XmlFile(entries) == [kind |-> "xml", entries |-> entries]

Project(name, path, last_opened) ==
    [name |-> name, path |-> path, last_opened |-> last_opened]

\* ElementTree.parse(file).getroot() followed by findall: the entries of a
\* well-formed document, FileNotFoundError for no file, ParseError for a
\* zero-byte file and for one that is not XML.
ElementTreeParse(file) ==
    CASE file.kind = "missing" -> Raise("FileNotFoundError", 57)
      [] file.kind = "empty" -> Raise("ParseError", 57)
      [] file.kind = "garbage" -> Raise("ParseError", 57)
      [] file.kind = "xml" -> Return(file.entries)

\* The loop over the entries; int() raises out of it.
RECURSIVE CollectProjects(_, _)
CollectProjects(entries, projects) ==
    IF entries = <<>> THEN Return(projects)
    ELSE LET entry == Head(entries)
             project_path == ReplaceUserHome(entry.key)
             has_opened == entry.present /\ entry.hasValue
             last_opened == entry.value
         IN  IF project_path # <<>> /\ has_opened /\ last_opened # <<>>
             THEN LET n == IntOf(last_opened, 70)
                  IN  IF ~Ok(n) THEN n
                      ELSE CollectProjects(Tail(entries),
                              Append(projects,
                                 Project(PathName(project_path), project_path, n.val)))
             ELSE CollectProjects(Tail(entries), projects)

\* The exceptions the except clause names.
Caught == {"ParseError", "FileNotFoundError"}

ParseRecentProjects(file) ==
    LET root == ElementTreeParse(file)
    IN  IF root.exc \in Caught THEN Return(<<>>)
        ELSE IF ~Ok(root) THEN root
        ELSE CollectProjects(root.val, <<>>)

-----------------------------------------------------------------------------
(* Editor: _find_binary and list_projects.                                 *)

\* sorted(dirs): ascending by name.
RECURSIVE Sorted(_)
Sorted(dirs) ==
    IF dirs = {} THEN <<>>
    ELSE LET least == CHOOSE d \in dirs : \A e \in dirs : ~StrLess(e, d)
         IN  <<least>> \o Sorted(dirs \ {least})

\* config_dir.glob(prefix + "*/"): the existing directories whose name
\* starts with the prefix.
Glob(prefix, h) == {d \in DOMAIN h : StartsWith(d, prefix)}

ListProjects(editor, h) ==
    LET dirs == Glob(editor.config_dir_prefix, h)
    IN  IF dirs = {} THEN Return(<<>>)
        ELSE LET latest == Sorted(dirs)[Cardinality(dirs)]
             IN  ParseRecentProjects(h[latest])

-----------------------------------------------------------------------------
(* The registry (two of its families) and the binaries on the filesystem.  *)

S_clion == <<"c", "l", "i", "o", "n">>
S_clion_eap == <<"c", "l", "i", "o", "n", "-", "e", "a", "p">>
S_charm == <<"c", "h", "a", "r", "m">>
S_pycharm == <<"p", "y", "c", "h", "a", "r", "m">>
S_pycharm_eap == <<"p", "y", "c", "h", "a", "r", "m", "-", "e", "a", "p">>

CLionPrefix == <<"C", "L", "i", "o", "n">>
PyCharmPrefix == <<"P", "y", "C", "h", "a", "r", "m">>

CLion ==
    [name |-> "CLion", config_dir_prefix |-> CLionPrefix,
     binaries |-> <<S_clion, S_clion_eap>>]
PyCharm ==
    [name |-> "PyCharm", config_dir_prefix |-> PyCharmPrefix,
     binaries |-> <<S_charm, S_pycharm, S_pycharm_eap>>]

\* The list `editors` of __init__, in its order.
Registry == <<CLion, PyCharm>>

\* The values of the 'binaries' preference: "~/b" and "/o".
UserBin == << <<"~">>, <<"b">> >>
OptBin == << <<"o">> >>
BinaryDirs == {UserBin, OptBin}

\* The regular files under those directories.
InstalledFiles ==
    { HomePath \o << <<"b">>, S_clion_eap >>,
      OptBin \o <<S_clion>>,
      OptBin \o <<S_pycharm>>,
      OptBin \o <<S_charm>> }

\* Path(p).expanduser()
ExpandUser(p) ==
    IF p # <<>> /\ Head(p) = <<"~">> THEN HomePath \o Tail(p) ELSE p

\* None is the empty path.
None == <<>>

RECURSIVE FindBinary(_, _)
FindBinary(binaries_path, binaries) ==
    IF binaries = <<>> THEN None
    ELSE LET file == ExpandUser(binaries_path \o <<Head(binaries)>>)
         IN  IF file \in InstalledFiles THEN file
             ELSE FindBinary(binaries_path, Tail(binaries))

\* Editor.__init__
Editor(family, binaries_path) ==
    [name |-> family.name,
     config_dir_prefix |-> family.config_dir_prefix,
     binary |-> FindBinary(binaries_path, family.binaries)]

\* KeywordQueryEventListener.__init__: it keeps the preferences and the
\* editors whose binary was found, and reads no other preference.
Listener(preferences) ==
    LET editors == [i \in 1..Len(Registry) |->
                        Editor(Registry[i], preferences.binaries)]
    IN  [preferences |-> preferences,
         editors |-> SelectSeq(editors, LAMBDA e : e.binary # None)]

-----------------------------------------------------------------------------
(* re.search(query, name, re.IGNORECASE) for patterns of letters and       *)
(* parentheses.                                                            *)

Lower(c) == CASE c = "A" -> "a" [] c = "B" -> "b" [] OTHER -> c

\* The nesting depth after each prefix of the pattern; re.compile raises
\* re.error for a ")" with no "(" and for a "(" never closed.
RECURSIVE Depth(_, _)
Depth(pattern, n) ==
    IF n = 0 THEN 0
    ELSE Depth(pattern, n - 1)
            + (CASE pattern[n] = "(" -> 1 [] pattern[n] = ")" -> -1 [] OTHER -> 0)

ValidPattern(pattern) ==
    /\ \A n \in 1..Len(pattern) : Depth(pattern, n) >= 0
    /\ Depth(pattern, Len(pattern)) = 0

\* The characters a valid pattern of letters and groups must match in a row.
Literal(pattern) == SelectSeq(pattern, LAMBDA c : c \notin {"(", ")"})

ReSearch(pattern, name) ==
    LET lit == Literal(pattern)
    IN  \E start \in 0..(Len(name) - Len(lit)) :
            \A i \in 1..Len(lit) : Lower(name[start + i]) = Lower(lit[i])

-----------------------------------------------------------------------------
(* KeywordQueryEventListener.on_event.                                     *)

Pair(editor, project) == [editor |-> editor, project |-> project]

ExistingUnchecked(projects, d) == projects

\* [project for project in projects if Path(project.path).exists()]
Existing(projects, d) == SelectSeq(projects, LAMBDA p : p.path \in d)

\* The loop over self.editors: list, keep the existing, keep the matching,
\* extend.  re.search runs once per existing project, so an invalid pattern
\* raises only when there is one.
RECURSIVE ScanEditors(_, _, _, _, _)
ScanEditors(editors, query, h, d, pairs) ==
    IF editors = <<>> THEN Return(pairs)
    ELSE LET editor == Head(editors)
             listed == ListProjects(editor, h)
         IN  IF ~Ok(listed) THEN listed
             ELSE LET existing == Existing(listed.val, d)
                  IN  IF existing # <<>> /\ ~ValidPattern(query)
                      THEN Raise("re.error", 175)
                      ELSE LET matching ==
                                   SelectSeq(existing, LAMBDA p : ReSearch(query, p.name))
                           IN  ScanEditors(Tail(editors), query, h, d,
                                   pairs \o [i \in 1..Len(matching) |->
                                                Pair(editor, matching[i])])

\* Insert a pair behind every pair opened at the same time or later.
RECURSIVE InsertDescending(_, _)
InsertDescending(sorted, pair) ==
    IF sorted = <<>> THEN <<pair>>
    ELSE IF Head(sorted).project.last_opened >= pair.project.last_opened
         THEN <<Head(sorted)>> \o InsertDescending(Tail(sorted), pair)
         ELSE <<pair>> \o sorted

RECURSIVE InsertAscending(_, _)
InsertAscending(sorted, pair) ==
    IF sorted = <<>> THEN <<pair>>
    ELSE IF Head(sorted).project.last_opened <= pair.project.last_opened
         THEN <<Head(sorted)>> \o InsertAscending(Tail(sorted), pair)
         ELSE <<pair>> \o sorted

Unsorted(pairs) == pairs

RECURSIVE SortAscending(_)
SortAscending(pairs) ==
    IF pairs = <<>> THEN <<>>
    ELSE InsertAscending(SortAscending(SubSeq(pairs, 1, Len(pairs) - 1)),
                         pairs[Len(pairs)])

\* pairs.sort(key=last_opened, reverse=True): descending and stable.
RECURSIVE SortByLastOpened(_)
SortByLastOpened(pairs) ==
    IF pairs = <<>> THEN <<>>
    ELSE InsertDescending(SortByLastOpened(SubSeq(pairs, 1, Len(pairs) - 1)),
                          pairs[Len(pairs)])

TakeOneMore(pairs, n) ==
    SubSeq(pairs, 1, IF n + 1 < Len(pairs) THEN n + 1 ELSE Len(pairs))

\* pairs[:n] for n >= 0
Take(pairs, n) == SubSeq(pairs, 1, IF n < Len(pairs) THEN n ELSE Len(pairs))

\* The sorted pairs, before the slice.
Ranked(listener, query, h, d) ==
    LET scanned == ScanEditors(listener.editors, query, h, d, <<>>)
    IN  IF ~Ok(scanned) THEN scanned
        ELSE Return(SortByLastOpened(scanned.val))

\* on_event: the pairs the result list is rendered from, one item each.
OnEvent(listener, query, h, d) ==
    LET ranked == Ranked(listener, query, h, d)
    IN  IF ~Ok(ranked) THEN ranked
        ELSE LET limit == IntOf(listener.preferences.item_limit, 179)
             IN  IF ~Ok(limit) THEN limit
                 ELSE Return(Take(ranked.val, limit.val))

-----------------------------------------------------------------------------
(* The extension: subscription and dispatch.                               *)

\* extension.subscribe(KeywordQueryEvent, listener): the ulauncher Extension
\* keeps a list of listeners per event type and subscribe adds to it;
\* main.py never removes a listener.
Subscribe(subscribed, listener) == Append(subscribed, listener)

\* The event loop started by run() hands a KeywordQueryEvent to each
\* subscribed listener in turn, in subscription order; an exception leaving
\* a listener ends the dispatch.
RECURSIVE Dispatch(_, _, _, _)
Dispatch(subscribed, query, h, d) ==
    IF subscribed = <<>> THEN <<>>
    ELSE LET outcome == OnEvent(Head(subscribed), query, h, d)
         IN  IF ~Ok(outcome) THEN <<outcome>>
             ELSE <<outcome>> \o Dispatch(Tail(subscribed), query, h, d)

-----------------------------------------------------------------------------
(* The filesystems and inputs the runs start from.                         *)

Str_100 == <<"1", "0", "0">>
Str_50 == <<"5", "0">>
Str_200 == <<"2", "0", "0">>

\* Keys of history entries: /w/ab, $USER_HOME$/b and /w/a.
Key_ab == << <<"w">>, <<"a", "b">> >>
Key_b == << UserHomeToken, <<"b">> >>
Key_a == << <<"w">>, <<"a">> >>

ProjectPaths == {ReplaceUserHome(k) : k \in {Key_ab, Key_b, Key_a}}

CLion_1_0 == CLionPrefix \o <<"-", "1", ".", "0">>
CLion_2_1 == CLionPrefix \o <<"-", "2", ".", "1">>
CLion_10_0 == CLionPrefix \o <<"-", "1", "0", ".", "0">>
CLion_2 == CLionPrefix \o <<"-", "2">>
PyCharm_2_1 == PyCharmPrefix \o <<"-", "2", ".", "1">>

\* CLion's history: three projects opened at 100, 50 and 200.
CLionHistory ==
    XmlFile(<< Entry(Key_ab, TRUE, TRUE, Str_100),
               Entry(Key_b, TRUE, TRUE, Str_50),
               Entry(Key_a, TRUE, TRUE, Str_200) >>)

\* PyCharm's history: one project opened at 100, one entry with no
\* timestamp option and one whose option has no value.
PyCharmHistory ==
    XmlFile(<< Entry(Key_b, TRUE, TRUE, Str_100),
               Entry(Key_a, FALSE, FALSE, <<>>),
               Entry(Key_ab, TRUE, FALSE, <<>>) >>)

\* Well-formed XML whose second timestamp is not a number.
CorruptHistory ==
    XmlFile(<< Entry(Key_b, TRUE, TRUE, Str_100),
               Entry(Key_a, TRUE, TRUE, <<"x">>) >>)

PyCharmFiles ==
    {MissingFile, EmptyFile, GarbageFile, CorruptHistory, PyCharmHistory}

HomeStates ==
    { [dir \in dirs |-> IF dir = CLion_2_1 THEN CLionHistory ELSE file] :
      dirs \in SUBSET {CLion_2_1, PyCharm_2_1}, file \in PyCharmFiles }

\* The 'item_limit' preference: "2", "3" and "x".
ItemLimits == {<<"2">>, <<"3">>, <<"x">>}

Preferences == [binaries : BinaryDirs, item_limit : ItemLimits]

\* The query arguments: "", "A", "(" and "z".
Queries == {<<>>, <<"A">>, <<"(">>, <<"z">>}

-----------------------------------------------------------------------------
(* The extension as a state machine.                                       *)

Idle == [event |-> "none", arg |-> <<>>, outcomes |-> <<>>]

\* JetBrainsExtension.__init__ subscribes the PreferencesEventListener only.
Init ==
    /\ home \in HomeStates
    /\ disk = ProjectPaths
    /\ listeners = <<>>
    /\ reply = Idle

\* PreferencesEventListener.on_event
PreferencesEvent(preferences) ==
    /\ Len(listeners) < MaxListeners
    /\ listeners' = Subscribe(listeners, Listener(preferences))
    /\ reply' = Idle
    /\ UNCHANGED <<home, disk>>

\* A KeywordQueryEvent of the host, handled to completion.
KeywordQueryEvent(query) ==
    /\ reply' = [event |-> "KeywordQueryEvent", arg |-> query,
                 outcomes |-> Dispatch(listeners, query, home, disk)]
    /\ UNCHANGED <<home, disk, listeners>>

\* The user creates or deletes a project directory.
CreateProject(path) ==
    /\ path \notin disk
    /\ disk' = disk \cup {path}
    /\ reply' = Idle
    /\ UNCHANGED <<home, listeners>>

DeleteProject(path) ==
    /\ path \in disk
    /\ disk' = disk \ {path}
    /\ reply' = Idle
    /\ UNCHANGED <<home, listeners>>

Next ==
    \/ \E preferences \in Preferences : PreferencesEvent(preferences)
    \/ \E query \in Queries : KeywordQueryEvent(query)
    \/ \E path \in ProjectPaths : CreateProject(path)
    \/ \E path \in ProjectPaths : DeleteProject(path)

Spec == Init /\ [][Next]_vars

-----------------------------------------------------------------------------
(* Editor.list_projects on its own, over sets of configuration             *)
(* directories.  Every directory holds a history that names it.            *)

SelectDirs == {CLionPrefix, CLion_1_0, CLion_2_1, CLion_10_0, CLion_2, PyCharm_2_1}

StampOf(dir) ==
    CASE dir = CLionPrefix -> <<"1">>
      [] dir = CLion_1_0 -> <<"2">>
      [] dir = CLion_2_1 -> <<"3">>
      [] dir = CLion_10_0 -> <<"4">>
      [] dir = CLion_2 -> <<"5">>
      [] dir = PyCharm_2_1 -> <<"6">>

HistoryOf(dir) == XmlFile(<< Entry(Key_ab, TRUE, TRUE, StampOf(dir)) >>)

InitSelect ==
    /\ home \in {[dir \in dirs |-> HistoryOf(dir)] : dirs \in SUBSET SelectDirs}
    /\ disk = ProjectPaths
    /\ listeners = <<>>
    /\ reply = Idle

ListProjectsCall(family) ==
    /\ reply' = [event |-> "list_projects", arg |-> family.config_dir_prefix,
                 outcomes |-> <<ListProjects(Editor(family, OptBin), home)>>]
    /\ UNCHANGED <<home, disk, listeners>>

NextSelect == \E family \in {CLion, PyCharm} : ListProjectsCall(family)

SpecSelect == InitSelect /\ [][NextSelect]_vars

-----------------------------------------------------------------------------
(* Editor._parse_recent_projects on its own, over every history file of up *)
(* to MaxEntries entries.                                                  *)

ParseValues == {<<>>, <<"7">>, <<"1", "2">>, <<"x">>, <<"1", "x">>}

ParseEntries ==
    {Entry(key, FALSE, FALSE, <<>>) : key \in {<<>>, Key_ab, Key_b}}
        \cup {Entry(key, TRUE, FALSE, <<>>) : key \in {<<>>, Key_ab, Key_b}}
        \cup {Entry(key, TRUE, TRUE, value) :
                key \in {<<>>, Key_ab, Key_b}, value \in ParseValues}

ParseFiles ==
    {MissingFile, EmptyFile, GarbageFile}
        \cup {XmlFile(entries) :
                entries \in UNION {[1..n -> ParseEntries] : n \in 0..MaxEntries}}

InitParse ==
    /\ home \in {[dir \in {CLion_2_1} |-> file] : file \in ParseFiles}
    /\ disk = ProjectPaths
    /\ listeners = <<>>
    /\ reply = Idle

ParseCall ==
    /\ reply' = [event |-> "_parse_recent_projects", arg |-> <<>>,
                 outcomes |-> <<ParseRecentProjects(home[CLion_2_1])>>]
    /\ UNCHANGED <<home, disk, listeners>>

NextParse == ParseCall

SpecParse == InitParse /\ [][NextParse]_vars

-----------------------------------------------------------------------------
(* Vocabulary of the properties.                                           *)

Range(seq) == {seq[i] : i \in 1..Len(seq)}

IsQueryReply == reply.event = "KeywordQueryEvent"

\* The listeners that were handed the last query, by position.
Answered == 1..Len(reply.outcomes)

Limit(listener) == IntOf(listener.preferences.item_limit, 179)

\* The pairs that survive the filters for a listener, in scan order.
Scanned(listener) == ScanEditors(listener.editors, reply.arg, home, disk, <<>>)

Timestamps(pairs) == [i \in 1..Len(pairs) |-> pairs[i].project.last_opened]

PositionIn(seq, x) == CHOOSE k \in 1..Len(seq) : seq[k] = x

\* The listener with its editors scanned in the opposite order.
ReverseSeq(seq) == [i \in 1..Len(seq) |-> seq[Len(seq) + 1 - i]]
Reversed(listener) == [listener EXCEPT !.editors = ReverseSeq(@)]

\* The listener without its k-th editor.
Without(listener, k) ==
    [listener EXCEPT !.editors =
        SubSeq(@, 1, k - 1) \o SubSeq(@, k + 1, Len(@))]

\* a sorts before b character by character, a proper prefix first.
LexBefore(a, b) ==
    \/ Len(a) < Len(b) /\ SubSeq(b, 1, Len(a)) = a
    \/ \E i \in 1..Len(a) :
          /\ i <= Len(b)
          /\ \A j \in 1..(i - 1) : a[j] = b[j]
          /\ Ord(a[i]) < Ord(b[i])

\* A timestamp value that is there and is not a decimal number.
CorruptValue(entry) ==
    /\ entry.key # <<>>
    /\ entry.present /\ entry.hasValue /\ entry.value # <<>>
    /\ \E i \in 1..Len(entry.value) : entry.value[i] \notin Digits

\* Absent, zero-byte, not XML, or XML with a corrupt field value.
BadHistory(file) ==
    \/ file.kind \in {"missing", "empty", "garbage"}
    \/ file.kind = "xml" /\ \E i \in 1..Len(file.entries) : CorruptValue(file.entries[i])

\* The entry has a non-empty key and a present, non-empty timestamp value.
Qualifies(entry) ==
    entry.key # <<>> /\ entry.present /\ entry.hasValue /\ entry.value # <<>>

-----------------------------------------------------------------------------
(* The claims.                                                             *)

\* C1: a returned list has at most item_limit entries; when more pairs
\* survive the filters than the limit, it has exactly item_limit entries,
\* all of them surviving pairs, and no surviving pair left out was opened
\* later than a returned one.
C1_LimitKeepsNewest ==
    IsQueryReply =>
        \A i \in Answered :
            LET out == reply.outcomes[i]
                limit == Limit(listeners[i]).val
                survivors == Scanned(listeners[i]).val
            IN  Ok(out) =>
                  /\ Len(out.val) <= limit
                  /\ Range(out.val) \subseteq Range(survivors)
                  /\ Len(survivors) > limit => Len(out.val) = limit
                  /\ \A left \in Range(survivors) \ Range(out.val) :
                        \A kept \in Range(out.val) :
                            left.project.last_opened <= kept.project.last_opened

\* C1 witness: a query answered with more surviving pairs than the limit.
C1_Witness ==
    /\ IsQueryReply
    /\ \E i \in Answered :
          /\ Ok(reply.outcomes[i])
          /\ Len(Scanned(listeners[i]).val) > Limit(listeners[i]).val

\* C2: a returned list is ordered by last_opened descending, pairs opened
\* at the same time stay in the order they were scanned in, and CLion's
\* history [100, 50, 200] alone, all on disk, comes back for the empty
\* query as [200, 100, 50].
C2_DescendingStable ==
    IsQueryReply =>
        \A i \in Answered :
            LET out == reply.outcomes[i]
                survivors == Scanned(listeners[i]).val
            IN  Ok(out) =>
                  /\ \A j \in 1..(Len(out.val) - 1) :
                        LET a == out.val[j]
                            b == out.val[j + 1]
                        IN  /\ a.project.last_opened >= b.project.last_opened
                            /\ a.project.last_opened = b.project.last_opened
                                 => PositionIn(survivors, a) < PositionIn(survivors, b)
                  /\ ( /\ DOMAIN home = {CLion_2_1}
                       /\ disk = ProjectPaths
                       /\ reply.arg = <<>>
                       /\ listeners[i].preferences.item_limit = <<"3">> )
                        => Timestamps(out.val) = <<200, 100, 50>>

\* C2 witness: the empty query over CLion's history alone returned three
\* projects.
C2_Witness ==
    /\ IsQueryReply
    /\ DOMAIN home = {CLion_2_1}
    /\ reply.arg = <<>>
    /\ \E i \in Answered : Ok(reply.outcomes[i]) /\ Len(reply.outcomes[i].val) = 3

\* C3: every project of a returned list exists on the filesystem when the
\* query runs.
C3_ResultsExist ==
    IsQueryReply =>
        \A i \in Answered :
            \A pair \in Range(reply.outcomes[i].val) : pair.project.path \in disk

\* C3 witness: after a project directory was deleted, a query returned
\* projects while a project of a scanned history was not on disk.
C3_Witness ==
    /\ IsQueryReply
    /\ disk # ProjectPaths
    /\ \E i \in Answered :
          /\ Ok(reply.outcomes[i])
          /\ reply.outcomes[i].val # <<>>
          /\ \E k \in 1..Len(listeners[i].editors) :
                \E project \in Range(ListProjects(listeners[i].editors[k], home).val) :
                    project.path \notin disk /\ ReSearch(reply.arg, project.name)

\* C4: when the history an editor reads is absent, zero-byte, not XML or
\* XML with a corrupt value, listing it raises nothing and yields no
\* project, and the query returns what the other editors return on their
\* own (for a valid pattern and a numeric limit).
C4_BadHistoryIsEmpty ==
    (IsQueryReply /\ ValidPattern(reply.arg)) =>
        \A i \in Answered :
            Ok(Limit(listeners[i])) =>
                \A k \in 1..Len(listeners[i].editors) :
                    LET editor == listeners[i].editors[k]
                        dirs == Glob(editor.config_dir_prefix, home)
                    IN  (\A dir \in dirs : BadHistory(home[dir])) =>
                          /\ ListProjects(editor, home) = Return(<<>>)
                          /\ reply.outcomes[i] =
                               OnEvent(Without(listeners[i], k), reply.arg, home, disk)

\* C5: no query, valid pattern or not, makes on_event raise re.error.
C5_QueryNeverRaises ==
    IsQueryReply => \A i \in Answered : reply.outcomes[i].exc # "re.error"

\* C6: no query fails on the item limit of a listener that was constructed.
C6_LimitRejectedAtLoad ==
    IsQueryReply =>
        \A i \in Answered :
            ~(reply.outcomes[i].exc = "ValueError" /\ reply.outcomes[i].line = 179)

\* C7: list_projects returns the parsed history of the matching directory
\* whose name is greatest character by character (X-2.1 among X-1.0, X-2.1
\* and X-10.0), and the empty list when no directory matches.
C7_GreatestName ==
    reply.event = "list_projects" =>
        LET matching == {dir \in DOMAIN home : StartsWith(dir, reply.arg)}
        IN  /\ matching = {} => reply.outcomes = <<Return(<<>>)>>
            /\ matching # {} =>
                 \E dir \in matching :
                    /\ \A other \in matching \ {dir} : LexBefore(other, dir)
                    /\ reply.outcomes = <<ParseRecentProjects(home[dir])>>
            /\ ( /\ reply.arg = CLionPrefix
                 /\ {CLion_1_0, CLion_2_1, CLion_10_0} \subseteq matching )
                  => Timestamps([i \in 1..Len(reply.outcomes[1].val) |->
                                    [project |-> reply.outcomes[1].val[i]]]) = <<3>>

\* C7 witness: list_projects ran with X-1.0, X-2.1 and X-10.0 all there.
C7_Witness ==
    /\ reply.event = "list_projects"
    /\ reply.arg = CLionPrefix
    /\ {CLion_1_0, CLion_2_1, CLion_10_0} \subseteq DOMAIN home
    /\ reply.outcomes[1].val # <<>>

\* C8: for a well-formed history, _parse_recent_projects returns one
\* record, in order, for each entry with a non-empty key and a present,
\* non-empty timestamp value, and none for any other entry.
C8_OneRecordPerEntry ==
    (reply.event = "_parse_recent_projects" /\ home[CLion_2_1].kind = "xml") =>
        LET out == reply.outcomes[1]
            wanted == SelectSeq(home[CLion_2_1].entries, Qualifies)
        IN  /\ Ok(out)
            /\ Len(out.val) = Len(wanted)
            /\ \A i \in 1..Len(wanted) :
                  out.val[i].path = ReplaceUserHome(wanted[i].key)

\* C9 as claimed: scanning the editors in the opposite order yields the
\* same result sequence.
C9_ScanOrderIrrelevant ==
    IsQueryReply =>
        \A i \in Answered :
            Ok(reply.outcomes[i]) =>
                reply.outcomes[i] =
                    OnEvent(Reversed(listeners[i]), reply.arg, home, disk)

\* C9 amended: scanning the editors in the opposite order yields the same
\* sequence of last_opened values, before and after the slice, and the
\* same entries before the slice; the result sequences are equal when no
\* two surviving projects of different editors were opened at the same
\* time.
C9_ScanOrderUpToTies ==
    IsQueryReply =>
        \A i \in Answered :
            LET out == reply.outcomes[i]
                back == OnEvent(Reversed(listeners[i]), reply.arg, home, disk)
                ranked == Ranked(listeners[i], reply.arg, home, disk)
                rankedBack == Ranked(Reversed(listeners[i]), reply.arg, home, disk)
                survivors == Range(Scanned(listeners[i]).val)
            IN  Ok(out) =>
                  /\ Ok(back)
                  /\ Timestamps(out.val) = Timestamps(back.val)
                  /\ Timestamps(ranked.val) = Timestamps(rankedBack.val)
                  /\ Range(ranked.val) = Range(rankedBack.val)
                  /\ (\A a, b \in survivors :
                         (a.editor # b.editor)
                            => a.project.last_opened # b.project.last_opened)
                        => out = back

\* C9 witness: a query answered from two editors that both contribute.
C9_Witness ==
    /\ IsQueryReply
    /\ \E i \in Answered :
          /\ Ok(reply.outcomes[i])
          /\ \E a, b \in Range(Scanned(listeners[i]).val) :
                /\ a.editor # b.editor
                /\ a.project.last_opened # b.project.last_opened

\* C10: a query is answered once, by the listener built from the latest
\* notification's preferences.
C10_LatestConfigurationOnly ==
    (IsQueryReply /\ listeners # <<>>) =>
        reply.outcomes =
            << OnEvent(Listener(listeners[Len(listeners)].preferences),
                       reply.arg, home, disk) >>

====
